---- MODULE Spec2Model ----
(***************************************************************************)
(* Squarezoid: a polyphonic square-wave VST synthesizer (src/src/lib.rs).  *)
(*                                                                         *)
(* The engine state is the note registry, the global pitch bend and the    *)
(* sample rate.  The host calls process_events with a batch of events,     *)
(* set_sample_rate, and process with an audio buffer.                      *)
(*                                                                         *)
(* Numbers.  f64 time is counted in ticks of 1/TicksPerSecond seconds, so  *)
(* that 1/sample_rate is a whole number of ticks for every modelled rate;  *)
(* a frequency is a whole number of milli-Hertz; a phase is a whole number *)
(* of 1/PhaseModulus cycles.  Sums and products of these are exact; the    *)
(* rounding of f64 is not modelled.  2^x is interpolated linearly between  *)
(* equal-tempered semitones (exp2 is not an integer operation).            *)
(***************************************************************************)
EXTENDS Integers, Sequences, FiniteSets, TLC

(***************************************************************************)
(* Bounds of the model and the bytes the host sends.                       *)
(***************************************************************************)
\* A note is rendered until it has been held for MaxDuration ticks.
MaxDuration == 4
\* The largest sample count of one audio buffer.
MaxSamples == 2
\* The largest number of events in one batch.
MaxBatch == 2

\* Status bytes: the two ends of every range the match distinguishes.
StatusBytes == {127, 128, 143, 144, 159, 160, 175, 176, 223, 224, 239, 240}
\* Pitch bytes: A4, and a byte that is no u7 and whose i8 subtraction
\* overflows.
PitchBytes == {69, 128}
\* Velocity bytes: 0, a middle value, 127, and a byte that is no u7.
VelocityBytes == {0, 64, 127, 255}
\* Pitch wheel bytes: least and most significant.
BendLsb == {0, 127}
BendMsb == {0, 64, 127, 255}
\* Sample rates the host announces.
SampleRates == {44100, 22050}
\* Numbers of output channels of the host's buffer.
OutputCounts == {1, 2}

(***************************************************************************)
(* Units.                                                                  *)
(***************************************************************************)
TicksPerSecond == 44100
MilliHz == 1000
PhaseModulus == TicksPerSecond * MilliHz

(***************************************************************************)
(* Machine integers.                                                       *)
(***************************************************************************)
\* `x as i8` of a u8: the same bits, read as two's complement.
AsI8(x) == IF x >= 128 THEN x - 256 ELSE x

\* An i8 subtraction leaves the range of i8.
SubOverflowsI8(a, b) == a - b < -128 \/ a - b > 127

\* The i8 subtraction of a build without overflow checks: it wraps.
WrappingSubI8(a, b) == ((a - b + 128) % 256) - 128

\* The most significant byte shifted by 8 bits, as for 8-bit data.
BitOrShl8(lo, hi) == lo + 256 * hi

\* data[1] as u16 | ((data[2] as u16) << 7), bit by bit: the low 7 bits of
\* the first byte, its bit 7 or-ed with bit 0 of the second, then the
\* remaining bits of the second byte shifted.
BitOrShl7(lo, hi) ==
    LET lo7 == lo % 128
        b7  == IF lo >= 128 \/ hi % 2 = 1 THEN 1 ELSE 0
    IN  lo7 + 128 * b7 + 256 * (hi \div 2)

(***************************************************************************)
(* Exact products: floor(c * x / m) and (c * x) mod m for 0 <= x < m,      *)
(* by doubling, so that no intermediate value exceeds 2 * m.               *)
(***************************************************************************)
RECURSIVE MulDivMod(_, _, _)
MulDivMod(c, x, m) ==
    IF c = 0 THEN [q |-> 0, r |-> 0]
    ELSE LET h  == MulDivMod(c \div 2, x, m)
             dq == 2 * h.q + (IF 2 * h.r >= m THEN 1 ELSE 0)
             dr == (2 * h.r) % m
         IN  IF c % 2 = 0 THEN [q |-> dq, r |-> dr]
             ELSE [q |-> dq + (IF dr + x >= m THEN 1 ELSE 0),
                   r |-> (dr + x) % m]

(***************************************************************************)
(* midi_pitch_to_freq                                                      *)
(***************************************************************************)
A4_PITCH == 69
A4_FREQ == 440
\* max_time of the bend interpolation.
BendMax == 16383
SemitonesPerOctave == 12

\* ease_with_scaled_time(Linear, -2.0, 2.0, bend, 16383.0), times 16383:
\* the time is bend / 16383, taken as 1 above 16383, and the value is
\* -2 + (2 - -2) * time.
BendAmtScaled(bend) ==
    IF bend > BendMax THEN 2 * BendMax
    ELSE 4 * bend - 2 * BendMax

\* pitch as i8 - A4_PITCH: the value the subtraction yields where it does
\* not panic.
SemitoneOffset(pitch) == WrappingSubI8(AsI8(pitch), A4_PITCH)

\* The subtraction overflows: a panic with overflow checks, a wrap without.
SemitoneOverflows(pitch) == SubOverflowsI8(AsI8(pitch), A4_PITCH)

\* pitch + bend_amt, in units of 1/16383 semitone.
ExponentScaled(pitch, bend) ==
    BendMax * SemitoneOffset(pitch) + BendAmtScaled(bend)

\* 2^(n/12) * 10^6 for n = 0..12.
SemitoneRatio ==
    << 1000000, 1059463, 1122462, 1189207, 1259921, 1334840, 1414214,
       1498307, 1587401, 1681793, 1781797, 1887749, 2000000 >>

RECURSIVE Pow2(_)
Pow2(n) == IF n = 0 THEN 1 ELSE 2 * Pow2(n - 1)

\* ((pitch + bend_amt) / 12.).exp2() * A4_FREQ, in milli-Hertz.
FreqOfExponent(e) ==
    LET octave == e \div (SemitonesPerOctave * BendMax)
        rest   == e % (SemitonesPerOctave * BendMax)
        semi   == rest \div BendMax
        part   == rest % BendMax
        lo     == SemitoneRatio[semi + 1]
        hi     == SemitoneRatio[semi + 2]
        ratio  == lo + ((hi - lo) * part) \div BendMax
        base   == (A4_FREQ * ratio) \div MilliHz
    IN  IF octave >= 0 THEN base * Pow2(octave)
        ELSE base \div Pow2(-octave)

midi_pitch_to_freq(pitch, bend) == FreqOfExponent(ExponentScaled(pitch, bend))

(***************************************************************************)
(* Events.  An event is a MIDI event carrying three data bytes, or an      *)
(* event of another kind (system exclusive, deprecated).                   *)
(***************************************************************************)
MidiEvent(status, d1, d2) == [midi |-> TRUE, data |-> <<status, d1, d2>>]
OtherEvent == [midi |-> FALSE, data |-> <<0, 0, 0>>]

WheelStatus == {s \in StatusBytes : s \in 224..239}

\* The events the host sends: pitch wheel messages with wheel bytes, every
\* other status with a pitch byte and a velocity byte, and a non-MIDI event.
Events ==
    {MidiEvent(s, p, v) : s \in StatusBytes \ WheelStatus,
                          p \in PitchBytes, v \in VelocityBytes}
    \cup {MidiEvent(s, l, m) : s \in WheelStatus, l \in BendLsb, m \in BendMsb}
    \cup {OtherEvent}

\* The events of the batches that hold any number of events.
BatchEvents ==
    {MidiEvent(s, 69, v) : s \in {128, 144, 160}, v \in {64, 127}}
    \cup {MidiEvent(224, l, 64) : l \in BendLsb}

RECURSIVE SeqsUpTo(_, _)
SeqsUpTo(S, n) ==
    IF n = 0 THEN {<<>>}
    ELSE LET shorter == SeqsUpTo(S, n - 1)
         IN  shorter \cup {Append(q, e) : q \in shorter, e \in S}

\* The batches of up to MaxBatch events.
Batches == SeqsUpTo(BatchEvents, MaxBatch)

(***************************************************************************)
(* The note registry: AHashMap<u8, Note> as the set of its entries.        *)
(***************************************************************************)
Entry(pitch, velocity, duration) ==
    [pitch |-> pitch, velocity |-> velocity, duration |-> duration]

\* HashMap::remove
\* A remove that empties the map.
remove_clearing(ns, pitch) == {}

remove(ns, pitch) == {e \in ns : e.pitch # pitch}

\* An insert that keeps the entry of an existing key beside the new one.
insert_keeping_old(ns, pitch, velocity, duration) ==
    ns \cup {Entry(pitch, velocity, duration)}

\* HashMap::insert: the entry of an existing key is replaced.
insert(ns, pitch, velocity, duration) ==
    remove(ns, pitch) \cup {Entry(pitch, velocity, duration)}

\* The pitches that have an entry.
Keys(ns) == {e.pitch : e \in ns}

(***************************************************************************)
(* process_events: one arm of the match per operator.  st is the part of   *)
(* the engine the handler writes: [notes, bend].                           *)
(***************************************************************************)
\* A note-off that also returns the pitch wheel to its centre.
NoteOff_recentering(st, data) ==
    [notes |-> remove(st.notes, data[2]), bend |-> 8192]

NoteOff(st, data) == [st EXCEPT !.notes = remove(@, data[2])]

\* A note-on that clamps the velocity to 127.
NoteOn_clamping(st, data) ==
    [st EXCEPT !.notes =
        insert(@, data[2], IF data[3] > 127 THEN 127 ELSE data[3], 0)]

NoteOn(st, data) == [st EXCEPT !.notes = insert(@, data[2], data[3], 0)]

\* An aftertouch that creates the note it does not find.
Aftertouch_creating(st, data) ==
    [st EXCEPT !.notes = insert(@, data[2], data[3], 0)]

\* An aftertouch that restarts the note it finds.
Aftertouch_restarting(st, data) ==
    [st EXCEPT !.notes =
        {IF e.pitch = data[2] THEN Entry(e.pitch, data[3], 0) ELSE e
            : e \in @}]

Aftertouch(st, data) ==
    [st EXCEPT !.notes =
        {IF e.pitch = data[2] THEN Entry(e.pitch, data[3], e.duration) ELSE e
            : e \in @}]

\* A pitch wheel that adds the decoded value to the bend.
PitchWheel_additive(st, data) ==
    [st EXCEPT !.bend = (@ + BitOrShl7(data[2], data[3])) % 65536]

PitchWheel(st, data) == [st EXCEPT !.bend = BitOrShl7(data[2], data[3])]

\* A match whose aftertouch arm reaches one status byte too far.
apply_event_wide(st, evt) ==
    LET data == evt.data
    IN  IF ~evt.midi THEN st
        ELSE IF data[1] \in 128..143 THEN NoteOff(st, data)
        ELSE IF data[1] \in 144..159 THEN NoteOn(st, data)
        ELSE IF data[1] \in 160..176 THEN Aftertouch(st, data)
        ELSE IF data[1] \in 224..239 THEN PitchWheel(st, data)
        ELSE st

apply_event(st, evt) ==
    LET data == evt.data
    IN  IF ~evt.midi THEN st
        ELSE IF data[1] \in 128..143 THEN NoteOff(st, data)
        ELSE IF data[1] \in 144..159 THEN NoteOn(st, data)
        ELSE IF data[1] \in 160..175 THEN Aftertouch(st, data)
        ELSE IF data[1] \in 224..239 THEN PitchWheel(st, data)
        ELSE st

\* A loop that applies the events last to first.
RECURSIVE apply_events_reversed(_, _)
apply_events_reversed(st, events) ==
    IF events = <<>> THEN st
    ELSE apply_event(apply_events_reversed(st, Tail(events)), Head(events))

\* for evt in events.events() { ... }
RECURSIVE apply_events(_, _)
apply_events(st, events) ==
    IF events = <<>> THEN st
    ELSE apply_events(apply_event(st, Head(events)), Tail(events))

(***************************************************************************)
(* process: the per-sample closure, one sample, the whole buffer.          *)
(***************************************************************************)
\* self.sample_rate.recip(), in ticks.
PerSample(rate) == TicksPerSecond \div rate

\* A closure with the polarity turned: high below the duty, low above it.
Voice_high_first(e, b) ==
    LET freq == midi_pitch_to_freq(e.pitch, b)
        duty_progress == MulDivMod(e.duration, freq % PhaseModulus, PhaseModulus).r
        below == MulDivMod(127, duty_progress, PhaseModulus).q < e.velocity
    IN  [pitch |-> e.pitch, velocity |-> e.velocity, duration |-> e.duration,
         freq |-> freq, duty_progress |-> duty_progress,
         out |-> IF below THEN 1 ELSE 0]

\* What the closure computes for one note: duty_progress is the fractional
\* part of duration * freq, in 1/PhaseModulus cycles; out is in units of
\* 0.01; duty_progress < velocity / 127 is decided exactly.
Voice(e, b) ==
    LET freq == midi_pitch_to_freq(e.pitch, b)
        duty_progress == MulDivMod(e.duration, freq % PhaseModulus, PhaseModulus).r
        below == MulDivMod(127, duty_progress, PhaseModulus).q < e.velocity
    IN  [pitch |-> e.pitch, velocity |-> e.velocity, duration |-> e.duration,
         freq |-> freq, duty_progress |-> duty_progress,
         out |-> IF below THEN 0 ELSE 1]

\* An advance made once per output channel of a stereo buffer.
Advance_per_channel(e, per_sample) ==
    Entry(e.pitch, e.velocity, e.duration + 2 * per_sample)

\* An advance that also lets the velocity decay by one.
Advance_decaying(e, per_sample) ==
    Entry(e.pitch, IF e.velocity > 0 THEN e.velocity - 1 ELSE 0,
          e.duration + per_sample)

\* note.duration += per_sample
Advance(e, per_sample) == Entry(e.pitch, e.velocity, e.duration + per_sample)

\* A mix that is limited to one unit however many notes are high.
SumOut_limited(voices) ==
    IF \E v \in voices : v.out = 1 THEN 1 ELSE 0

\* A sum that starts from one unit instead of zero.
RECURSIVE SumOut_offset(_)
SumOut_offset(voices) ==
    IF voices = {} THEN 1
    ELSE LET v == CHOOSE w \in voices : TRUE
         IN  v.out + SumOut_offset(voices \ {v})

\* .sum() of the closure's results
RECURSIVE SumOut(_)
SumOut(voices) ==
    IF voices = {} THEN 0
    ELSE LET v == CHOOSE w \in voices : TRUE
         IN  v.out + SumOut(voices \ {v})

\* An iteration that advances each note before it computes its contribution.
RenderSample_advance_first(ns, b, per_sample) ==
    LET advanced == {Advance(e, per_sample) : e \in ns}
        voices == {Voice(e, b) : e \in advanced}
    IN  [notes |-> advanced,
         voices |-> voices,
         sample |-> SumOut(voices)]

\* One iteration of the loop over sample_idx.
RenderSample(ns, b, per_sample) ==
    LET voices == {Voice(e, b) : e \in ns}
    IN  [notes |-> {Advance(e, per_sample) : e \in ns},
         voices |-> voices,
         sample |-> SumOut(voices)]

\* The loop over 0..sample_count: the registry after it and one frame per
\* sample index.
RECURSIVE Render(_, _, _, _)
Render(ns, b, per_sample, sample_count) ==
    IF sample_count = 0 THEN [notes |-> ns, frames |-> <<>>]
    ELSE LET one  == RenderSample(ns, b, per_sample)
             rest == Render(one.notes, b, per_sample, sample_count - 1)
         IN  [notes |-> rest.notes,
              frames |-> <<[voices |-> one.voices, sample |-> one.sample]>>
                         \o rest.frames]

\* A write of the sample to the first channel only, silence to the others.
WriteBuffer_first_only(frames, output_count) ==
    [buf_idx \in 1..output_count |->
        [sample_idx \in 1..Len(frames) |->
            IF buf_idx = 1 THEN frames[sample_idx].sample ELSE 0]]

\* buf[sample_idx] = sample as f32, for every output channel.
WriteBuffer(frames, output_count) ==
    [buf_idx \in 1..output_count |->
        [sample_idx \in 1..Len(frames) |-> frames[sample_idx].sample]]

(***************************************************************************)
(* State.                                                                  *)
(***************************************************************************)
VARIABLES
    notes,            \* the registry: a set of entries
    bend,             \* global pitch bend, a u16
    sample_rate,      \* Hz
    panicked,         \* a call panicked: the plugin is dead
    last_call         \* the host's most recent call and what it produced

vars == <<notes, bend, sample_rate, panicked, last_call>>

Call(op, n, frames, buffer) ==
    [op |-> op, n |-> n, frames |-> frames, buffer |-> buffer]

\* Squarezoid::default()
Init ==
    /\ notes = {}
    /\ sample_rate = 44100
    /\ bend = 8192
    /\ panicked = FALSE
    /\ last_call = Call("default", 0, <<>>, <<>>)

process_events(events) ==
    /\ ~panicked
    /\ LET st == apply_events([notes |-> notes, bend |-> bend], events)
       IN  /\ notes' = st.notes
           /\ bend' = st.bend
    /\ last_call' = Call("process_events", Len(events), <<>>, <<>>)
    /\ UNCHANGED <<sample_rate, panicked>>

set_sample_rate(rate) ==
    /\ ~panicked
    /\ sample_rate' = rate
    /\ last_call' = Call("set_sample_rate", 0, <<>>, <<>>)
    /\ UNCHANGED <<notes, bend, panicked>>

\* The i8 subtraction of some note overflows while a sample is rendered.
\* What follows depends on the build: with overflow checks (the debug
\* profile) the closure panics, without them (the release profile) the
\* subtraction wraps.
Overflows(sample_count) ==
    /\ sample_count >= 1
    /\ \E e \in notes : SemitoneOverflows(e.pitch)

\* The closure panics at an overflowing note in the first sample, after it
\* advanced the notes the iterator yielded before that one.
process_panic(sample_count) ==
    /\ Overflows(sample_count)
    /\ \E visited \in SUBSET {e \in notes : ~SemitoneOverflows(e.pitch)} :
          notes' = (notes \ visited)
                   \cup {Advance(e, PerSample(sample_rate)) : e \in visited}
    /\ panicked' = TRUE
    /\ last_call' = Call("panic", sample_count, <<>>, <<>>)

\* The call runs to its end.
process_return(sample_count, output_count) ==
    LET r == Render(notes, bend, PerSample(sample_rate), sample_count)
    IN  /\ notes' = r.notes
        /\ panicked' = FALSE
        /\ last_call' = Call("process", sample_count, r.frames,
                             WriteBuffer(r.frames, output_count))

process(sample_count, output_count) ==
    /\ ~panicked
    /\ \A e \in notes :
          e.duration + sample_count * PerSample(sample_rate) <= MaxDuration
    /\ \/ process_panic(sample_count)
       \/ process_return(sample_count, output_count)
    /\ UNCHANGED <<bend, sample_rate>>

Next ==
    \/ \E evt \in Events : process_events(<<evt>>)
    \/ \E rate \in SampleRates : set_sample_rate(rate)
    \/ \E sample_count \in 0..MaxSamples, output_count \in OutputCounts :
          process(sample_count, output_count)

Spec == Init /\ [][Next]_vars

\* The host delivers batches of any length up to MaxBatch.
NextBatch ==
    \/ \E events \in Batches : process_events(events)
    \/ \E rate \in SampleRates : set_sample_rate(rate)
    \/ \E sample_count \in 0..MaxSamples, output_count \in OutputCounts :
          process(sample_count, output_count)

SpecBatch == Init /\ [][NextBatch]_vars

(***************************************************************************)
(* Properties.  A property of an event is stated in every reachable state  *)
(* for every event the host may send next: After(events) is the state      *)
(* process_events leaves.  A property of rendering is stated of the frames *)
(* the most recent process call recorded.                                  *)
(***************************************************************************)
IsNoteOff(evt) == evt.midi /\ evt.data[1] \in 128..143
IsNoteOn(evt) == evt.midi /\ evt.data[1] \in 144..159
IsAftertouch(evt) == evt.midi /\ evt.data[1] \in 160..175
IsPitchWheel(evt) == evt.midi /\ evt.data[1] \in 224..239

Engine == [notes |-> notes, bend |-> bend]
After(events) == apply_events(Engine, events)

\* The entries of a registry for one pitch.
EntriesOf(ns, pitch) == {e \in ns : e.pitch = pitch}

\* The frames of the most recent process call, if it was the last call.
Frames == IF last_call.op = "process" THEN last_call.frames ELSE <<>>

\* C1: the registry never holds two entries for one pitch, and a note-on
\* (p, v), whatever came before it, leaves exactly one entry for p, with
\* elapsed duration 0 and velocity v.
C1_RegistryUniqueness ==
    /\ \A e1 \in notes : \A e2 \in notes : e1.pitch = e2.pitch => e1 = e2
    /\ \A evt \in Events :
          IsNoteOn(evt)
          => EntriesOf(After(<<evt>>).notes, evt.data[2])
               = {Entry(evt.data[2], evt.data[3], 0)}

\* C1 witness: pitch 69 triggered again, with another velocity, while it and
\* pitch 128 were sounding: its entry is new and the other note's is not.
C1_Witness ==
    /\ last_call.op = "process_events"
    /\ EntriesOf(notes, 69) = {Entry(69, 255, 0)}
    /\ \E e \in notes : e.pitch = 128 /\ e.duration > 0

\* C2: when a pitch wheel event follows a rendered sample of a held note,
\* the phase of the note at the next sample is the phase of that last sample
\* advanced by one sample period at the new frequency.
C2_PhaseContinuity ==
    Frames # <<>> =>
        \A evt \in Events : IsPitchWheel(evt) =>
            \A e \in After(<<evt>>).notes :
                \A v \in Frames[Len(Frames)].voices :
                    v.pitch = e.pitch
                    => Voice(e, After(<<evt>>).bend).duty_progress
                         = (v.duty_progress
                            + PerSample(sample_rate)
                                * (midi_pitch_to_freq(e.pitch, After(<<evt>>).bend)
                                     % PhaseModulus))
                           % PhaseModulus

\* C3: the global bend is always in 0..16383.
C3_BendInRange == bend \in 0..BendMax

\* C3 amended: the global bend is always in 0..32767; a pitch wheel event
\* with two 7-bit data bytes leaves it in 0..16383, and no other event
\* changes it.
C3_BendInRange7Bit ==
    /\ bend \in 0..32767
    /\ \A evt \in Events :
          IF IsPitchWheel(evt)
          THEN evt.data[2] <= 127 /\ evt.data[3] <= 127
               => After(<<evt>>).bend \in 0..BendMax
          ELSE After(<<evt>>).bend = bend

\* C3 witness: the largest bend of 7-bit data has been set.
C3_Witness == last_call.op = "process_events" /\ bend = BendMax

\* C4: every note of the registry has a velocity in 0..127.
C4_VelocityInRange == \A e \in notes : e.velocity \in 0..127

\* C4 amended: every velocity is a byte; a note-on, and an aftertouch for a
\* held pitch, store the event's velocity byte as it is; and the velocities
\* stay in 0..127 under every event whose velocity byte is in 0..127.
C4_VelocityStoredAsIs ==
    /\ \A e \in notes : e.velocity \in 0..255
    /\ \A evt \in Events :
          IsNoteOn(evt) \/ (IsAftertouch(evt) /\ evt.data[2] \in Keys(notes))
          => \A e \in EntriesOf(After(<<evt>>).notes, evt.data[2]) :
                e.velocity = evt.data[3]
    /\ \A evt \in Events :
          /\ \A e \in notes : e.velocity <= 127
          /\ evt.data[3] <= 127
          => \A e \in After(<<evt>>).notes : e.velocity <= 127

\* C4 witness: a held, rendered note whose velocity is a byte above 127.
C4_Witness ==
    /\ last_call.op = "process_events"
    /\ \E e \in notes : e.velocity = 255 /\ e.duration > 0

\* C5: rendering never panics, and the semitone offset of every rendered
\* note is computed without overflow and is pitch - 69.
C5_OffsetWithoutOverflow ==
    /\ ~panicked
    /\ \A k \in 1..Len(Frames) : \A v \in Frames[k].voices :
          /\ ~SemitoneOverflows(v.pitch)
          /\ SemitoneOffset(v.pitch) = v.pitch - A4_PITCH

\* C6: bend 8192 is exactly 0 semitones, bend 0 exactly -2 and bend 16383
\* exactly +2, on the line through these; so a note of pitch 69 (81)
\* rendered at bend 8192 has exactly 440 Hz (880 Hz).
C6_BendSemitones ==
    /\ bend <= BendMax => BendAmtScaled(bend) = 4 * bend - 2 * BendMax
    /\ bend = 0 => BendAmtScaled(bend) = -2 * BendMax
    /\ bend = BendMax => BendAmtScaled(bend) = 2 * BendMax
    /\ bend = 8192 => BendAmtScaled(bend) = 0
    /\ bend = 8192 =>
          \A k \in 1..Len(Frames) : \A v \in Frames[k].voices :
              /\ v.pitch = 69 => v.freq = 440 * MilliHz
              /\ v.pitch = 81 => v.freq = 880 * MilliHz

\* C7: a note's elapsed duration is never negative; it is 0 right after its
\* note-on; no other event changes it; and a process call of n samples
\* leaves it n sample periods above what the first sample saw, the k-th
\* sample having seen k-1 periods more than the first.
C7_ElapsedCountsSamples ==
    /\ \A e \in notes : e.duration >= 0
    /\ \A evt \in Events : \A e \in notes : \A f \in After(<<evt>>).notes :
          e.pitch = f.pitch
          => IF IsNoteOn(evt) /\ evt.data[2] = e.pitch
             THEN f.duration = 0
             ELSE f.duration = e.duration
    /\ last_call.op = "process" =>
          /\ Len(last_call.frames) = last_call.n
          /\ \A k \in 1..last_call.n :
                /\ {v.pitch : v \in last_call.frames[k].voices} = Keys(notes)
                /\ \A e \in notes : \A v \in last_call.frames[k].voices :
                      v.pitch = e.pitch
                      => e.duration = v.duration
                            + (last_call.n - k + 1) * PerSample(sample_rate)

\* C7 witness: after a call of MaxSamples samples, a note that has been
\* rendered for MaxDuration ticks beside a note triggered before this call.
C7_Witness ==
    /\ last_call.op = "process" /\ last_call.n = MaxSamples
    /\ \E e \in notes : e.duration = MaxDuration
    /\ \E e \in notes : e.duration = MaxSamples * PerSample(sample_rate)
    /\ Cardinality(notes) = 2

\* C8: a pitch wheel event with 7-bit data d1, d2 leaves the bend at
\* d1 + 128 * d2, whatever the bend was.
C8_BendOverride ==
    \A evt \in Events :
        IsPitchWheel(evt) /\ evt.data[2] <= 127 /\ evt.data[3] <= 127
        => After(<<evt>>).bend = evt.data[2] + 128 * evt.data[3]

\* C8 witness: a second pitch wheel event has been applied: the bend, which
\* is not the default, is decoded from two non-zero 7-bit bytes.
C8_Witness == last_call.op = "process_events" /\ bend = 127 + 128 * 64

\* C9: a note-off or an aftertouch for a pitch that has no entry leaves the
\* registry and the bend as they were.
C9_AbsentPitchIgnored ==
    \A evt \in Events :
        (IsNoteOff(evt) \/ IsAftertouch(evt)) /\ evt.data[2] \notin Keys(notes)
        => After(<<evt>>) = Engine

\* C9 witness: after an event, pitch 69 has no entry while pitch 128 is
\* held and has been rendered.
C9_Witness ==
    /\ last_call.op = "process_events"
    /\ 69 \notin Keys(notes)
    /\ \E e \in notes : e.pitch = 128 /\ e.duration > 0

\* C10: a batch is the left-to-right fold of its events: delivering it
\* whole leaves the state that delivering any prefix and then the rest
\* leaves, which is the state its last event leaves after the events before
\* it; and the order counts: note-on then note-off leaves the pitch absent,
\* note-off then note-on leaves it present with elapsed duration 0.
C10_ArrivalOrder ==
    /\ \A events \in Batches : \A k \in 0..Len(events) :
          After(events)
            = apply_events(After(SubSeq(events, 1, k)),
                           SubSeq(events, k + 1, Len(events)))
    /\ \A events \in Batches :
          events # <<>>
          => After(events)
               = apply_event(After(SubSeq(events, 1, Len(events) - 1)),
                             events[Len(events)])
    /\ \A v \in {64, 127} :
          /\ 69 \notin Keys(After(<<MidiEvent(144, 69, v), MidiEvent(128, 69, v)>>).notes)
          /\ EntriesOf(After(<<MidiEvent(128, 69, v), MidiEvent(144, 69, v)>>).notes, 69)
               = {Entry(69, v, 0)}

\* C10 witness: a batch of MaxBatch events has left pitch 69 triggered and
\* the bend moved.
C10_Witness ==
    /\ last_call.op = "process_events" /\ last_call.n = MaxBatch
    /\ \E e \in notes : e.pitch = 69 /\ e.duration = 0
    /\ bend # 8192

\* duty_progress / PhaseModulus >= velocity / 127, decided with the
\* quotient and the remainder of PhaseModulus by 127.
AtOrAboveDuty(duty_progress, velocity) ==
    LET a == PhaseModulus \div 127
        b == PhaseModulus % 127
        d == duty_progress - velocity * a
    IN  IF d < 0 THEN FALSE
        ELSE IF d >= 256 THEN TRUE
        ELSE 127 * d >= velocity * b

\* C11: in every rendered frame a note contributes 0.01 when its
\* duty_progress, the fractional part of duration * frequency, is at least
\* velocity / 127, and 0.0 otherwise: a note of velocity 127 contributes 0.0
\* and a note of velocity 0 contributes 0.01.
C11_Contribution ==
    \A k \in 1..Len(Frames) : \A v \in Frames[k].voices :
        /\ v.duty_progress \in 0..(PhaseModulus - 1)
        /\ v.freq = midi_pitch_to_freq(v.pitch, bend)
        /\ \E cycles \in 0..(v.duration * (v.freq \div PhaseModulus + 1)) :
              v.duration * (v.freq % PhaseModulus)
                = cycles * PhaseModulus + v.duty_progress
        /\ v.out = IF AtOrAboveDuty(v.duty_progress, v.velocity) THEN 1 ELSE 0
        /\ v.velocity = 127 => v.out = 0
        /\ v.velocity = 0 => v.out = 1

\* C11 witness: one frame in which a note of velocity 64 is high, past its
\* duty, and a note of velocity 64 is low, before it.
C11_Witness ==
    \E k \in 1..Len(Frames) :
        /\ \E v \in Frames[k].voices :
              v.velocity = 64 /\ v.out = 1 /\ v.duty_progress > 0
        /\ \E v \in Frames[k].voices :
              v.velocity = 64 /\ v.out = 0 /\ v.duty_progress > 0

\* C12: a process call with an empty registry writes 0.0 at every sample
\* index of every output channel.
C12_Silence ==
    last_call.op = "process" /\ notes = {}
    => /\ Len(last_call.frames) = last_call.n
       /\ \A buf_idx \in DOMAIN last_call.buffer :
             /\ Len(last_call.buffer[buf_idx]) = last_call.n
             /\ \A sample_idx \in 1..last_call.n :
                   last_call.buffer[buf_idx][sample_idx] = 0

\* C12 witness: MaxSamples samples of silence on two channels, rendered
\* with the bend off its default and the sample rate changed.
C12_Witness ==
    /\ last_call.op = "process" /\ notes = {}
    /\ last_call.n = MaxSamples /\ Len(last_call.buffer) = 2
    /\ bend = 32767 /\ sample_rate = 22050

\* C13: within one process call every output channel holds, at every
\* sample index, the mixed value of that index, whatever the number of
\* channels; and the notes were advanced once per sample index.
C13_ChannelSymmetry ==
    last_call.op = "process"
    => /\ \A buf_idx \in DOMAIN last_call.buffer :
             /\ Len(last_call.buffer[buf_idx]) = last_call.n
             /\ \A sample_idx \in 1..last_call.n :
                   last_call.buffer[buf_idx][sample_idx]
                     = last_call.frames[sample_idx].sample
       /\ \A b1 \in DOMAIN last_call.buffer : \A b2 \in DOMAIN last_call.buffer :
             last_call.buffer[b1] = last_call.buffer[b2]
       /\ last_call.n >= 1 =>
             \A e \in notes : \E v \in last_call.frames[1].voices :
                 /\ v.pitch = e.pitch
                 /\ e.duration = v.duration + last_call.n * PerSample(sample_rate)

\* C13 witness: two channels, MaxSamples samples, a non-zero mixed value.
C13_Witness ==
    /\ last_call.op = "process" /\ last_call.n = MaxSamples
    /\ Len(last_call.buffer) = 2
    /\ last_call.buffer[2][MaxSamples] > 0
    /\ notes # {}

\* The events of the model by the arm of the match that takes them.
NoteOffEvents == {evt \in Events : IsNoteOff(evt)}
NoteOnEvents == {evt \in Events : IsNoteOn(evt)}
AftertouchEvents == {evt \in Events : IsAftertouch(evt)}
PitchWheelEvents == {evt \in Events : IsPitchWheel(evt)}
IgnoredEvents ==
    Events \ (NoteOffEvents \cup NoteOnEvents \cup AftertouchEvents
                \cup PitchWheelEvents)

\* C14: only a pitch-wheel event changes the bend: every other event, a
\* sample-rate update and a process call leave it as it was; and a
\* pitch-wheel event leaves the registry as it was.
C14_BendFrame ==
    /\ [](/\ \A evt \in Events \ PitchWheelEvents : After(<<evt>>).bend = bend
          /\ \A evt \in PitchWheelEvents : After(<<evt>>).notes = notes)
    /\ [][last_call'.op # "process_events" => bend' = bend]_vars

\* C14 witness: the bend set to its largest value while two rendered notes
\* are held.
C14_Witness ==
    /\ last_call.op = "process_events" /\ bend = 32767
    /\ Cardinality(notes) = 2
    /\ \A e \in notes : e.duration > 0

\* C15: an event outside the four recognised status ranges, and an event
\* that is not MIDI, leaves the registry and the bend as they were; the
\* handler does not touch the sample rate.
C15_IgnoredEvents ==
    /\ [](/\ OtherEvent \in IgnoredEvents
          /\ \A status \in {127, 176, 223, 240} :
                \E evt \in IgnoredEvents : evt.midi /\ evt.data[1] = status
          /\ \A evt \in IgnoredEvents : After(<<evt>>) = Engine)
    /\ [][last_call'.op = "process_events" => sample_rate' = sample_rate]_vars

\* C15 witness: events delivered while a rendered note of velocity 64 is
\* held and the bend is off its default.
C15_Witness ==
    /\ last_call.op = "process_events" /\ bend = 127
    /\ \E e \in notes : e.velocity = 64 /\ e.duration > 0

\* C16: the contribution of a sample is computed from the duration the
\* note has before that sample's advance: the k-th sample of a call uses
\* the duration k-1 sample periods after the call began; a note that was
\* triggered just before the call has duration 0 and phase 0 at the first
\* sample, is low there when its velocity is at least 1, and has gained
\* exactly one sample period per sample; if every note is such a note the
\* first sample of every channel is 0.0.
C16_ContributionBeforeAdvance ==
    last_call.op = "process" /\ last_call.n >= 1
    => LET n == last_call.n
           per_sample == PerSample(sample_rate)
           fresh == {e \in notes : e.duration = n * per_sample}
       IN  /\ \A e \in notes : \A k \in 1..n :
                 \E v \in last_call.frames[k].voices :
                     /\ v.pitch = e.pitch
                     /\ v.duration + (n - k + 1) * per_sample = e.duration
           /\ \A e \in fresh : \E v \in last_call.frames[1].voices :
                 /\ v.pitch = e.pitch
                 /\ v.duration = 0
                 /\ v.duty_progress = 0
                 /\ e.velocity >= 1 => v.out = 0
           /\ (notes = fresh /\ \A e \in notes : e.velocity >= 1)
              => \A buf_idx \in DOMAIN last_call.buffer :
                    last_call.buffer[buf_idx][1] = 0

\* C16 witness: one sample rendered on two channels at 22050 Hz right after
\* a note-on of velocity 64 on an empty registry.
C16_Witness ==
    /\ last_call.op = "process" /\ last_call.n = 1
    /\ sample_rate = 22050
    /\ notes = {Entry(69, 64, PerSample(22050))}
    /\ Len(last_call.buffer) = 2
    /\ last_call.buffer[2][1] = 0

\* C17: the mixed value of a sample index is the number of live notes
\* whose contribution is high there, in units of 0.01: every entry of the
\* registry is visited exactly once, the sum is not normalised, and it lies
\* between 0 and the size of the registry.
C17_MixIsCount ==
    \A k \in 1..Len(Frames) :
        LET frame == Frames[k]
        IN  /\ {v.pitch : v \in frame.voices} = Keys(notes)
            /\ Cardinality(frame.voices) = Cardinality(notes)
            /\ \A v \in frame.voices : v.out \in {0, 1}
            /\ frame.sample = Cardinality({v \in frame.voices : v.out = 1})
            /\ frame.sample >= 0 /\ frame.sample <= Cardinality(notes)
            /\ \A buf_idx \in DOMAIN last_call.buffer :
                  last_call.buffer[buf_idx][k] = frame.sample

\* C17 witness: a sample index at which two notes are high at once.
C17_Witness ==
    \E k \in 1..Len(Frames) :
        /\ Frames[k].sample = 2
        /\ Cardinality(notes) = 2

\* C18: an aftertouch event for a live pitch p changes the note in place:
\* p's velocity becomes the event's value and p's duration stays; every
\* other note, the set of pitches and the bend stay as they were.
C18_AftertouchInPlace ==
    \A evt \in AftertouchEvents :
        LET p == evt.data[2]
            after == After(<<evt>>)
        IN  p \in Keys(notes)
            => /\ Keys(after.notes) = Keys(notes)
               /\ Cardinality(after.notes) = Cardinality(notes)
               /\ \A e \in EntriesOf(notes, p) :
                     EntriesOf(after.notes, p)
                       = {Entry(p, evt.data[3], e.duration)}
               /\ \A e \in notes : e.pitch # p => e \in after.notes
               /\ after.bend = bend

\* C18 witness: events delivered while pitch 69 is held at velocity 0 with
\* MaxDuration ticks behind it and another note is held beside it.
C18_Witness ==
    /\ last_call.op = "process_events"
    /\ Entry(69, 0, MaxDuration) \in notes
    /\ Cardinality(notes) = 2

\* C19: a note-off for pitch p, on the first channel or the last, removes
\* p's entry and only p's: every other note and the bend stay as they were;
\* a note-on for p after it starts p again from duration 0.
C19_NoteOffRemovesOnlyP ==
    \A evt \in NoteOffEvents :
        LET p == evt.data[2]
            after == After(<<evt>>)
        IN  /\ evt.data[1] \in {128, 143}
            /\ p \notin Keys(after.notes)
            /\ after.notes = {e \in notes : e.pitch # p}
            /\ after.bend = bend
            /\ \A on \in NoteOnEvents :
                  on.data[2] = p
                  => After(<<evt, on>>).notes
                       = {e \in notes : e.pitch # p}
                           \cup {Entry(p, on.data[3], 0)}

\* C19 witness: events delivered after which pitch 128 is absent and pitch
\* 69 is still held with its rendered duration.
C19_Witness ==
    /\ last_call.op = "process_events"
    /\ 128 \notin Keys(notes)
    /\ \E e \in notes : e.pitch = 69 /\ e.velocity = 127 /\ e.duration > 0

\* C20: a process call, whether it returns or panics, changes nothing but
\* the durations of the live notes: the set of pitches, every velocity,
\* the bend and the sample rate are after the call what they were before
\* it, and no duration decreases; a call of 0 samples returns and changes
\* nothing at all.
C20_RenderFrame ==
    [][last_call'.op \in {"process", "panic"}
         => /\ Keys(notes') = Keys(notes)
            /\ Cardinality(notes') = Cardinality(notes)
            /\ \A e \in notes : \E f \in notes' :
                  /\ f.pitch = e.pitch
                  /\ f.velocity = e.velocity
                  /\ f.duration >= e.duration
            /\ bend' = bend
            /\ sample_rate' = sample_rate
            /\ last_call'.n = 0
               => /\ last_call'.op = "process"
                  /\ notes' = notes
                  /\ panicked' = panicked]_vars

\* C20 witness: a call of 0 samples while two rendered notes are held and
\* the bend is off its default.
C20_Witness ==
    /\ last_call.op = "process" /\ last_call.n = 0
    /\ Cardinality(notes) = 2
    /\ \A e \in notes : e.duration > 0
    /\ bend = 0
====
